---- MODULE Spec2Model ----
(***************************************************************************)
(* Model of the Kubeflow Pipelines notebook automl_tables_xai.ipynb:       *)
(*   - the eval_metrics component (its nested regression_threshold_check), *)
(*   - the pipelines bikes_weather_metrics and bikes_weather_hptune that   *)
(*     gate the serve step on eval_metrics' 'deploy' output.               *)
(*                                                                         *)
(* Numbers are small naturals; only their order matters to the code        *)
(* (Python compares int and float exactly), so 1800 / 2000 / 2200 of the   *)
(* notebook are 1 / 2 / 3 here.                                            *)
(***************************************************************************)
EXTENDS Integers, Sequences, FiniteSets, TLC

(* ------------------------------ bounds -------------------------------- *)

\* Most entries of the thresholds dict.
MaxSpecLen == 2
\* Most entries of num_best_hps_list (parallel training branches).
MaxBranches == 2
MaxCalls == 3
MaxRuns == 2

\* Lengths of one metric's observation list, and numbers of metrics in the
\* metrics document.
ObsLengths == 0..2
ReportSizes == 0..2

(* --------------------------- input universe --------------------------- *)

RMSE == "root_mean_squared_error"
MAE == "mae"

\* Metric names used as keys of the two JSON documents: the two the code
\* names, and three it does not.
MetricNames == {RMSE, MAE, "mse", "accuracy", "rmse"}

\* Observed metric values and numeric threshold values.
ObsValues == {1, 2, 3}
ThresholdValues == {2}

\* JSON values a thresholds entry can hold: a number, or a string (which
\* Python cannot order against a number).
Number(n) == [type |-> "number", num |-> n]
String == [type |-> "string", num |-> 0]

JsonValues == {Number(n) : n \in ThresholdValues} \cup {String}

\* Sequences over S with a length in L.
SeqsOfLen(S, L) == UNION {[1..m -> S] : m \in L}

Keys(items) == {items[i].k : i \in DOMAIN items}

\* A thresholds dict: its items in insertion order, keys distinct.
ThresholdDicts ==
  {items \in SeqsOfLen([k : MetricNames, v : JsonValues], 0..MaxSpecLen) :
     Cardinality(Keys(items)) = Len(items)}

\* A metrics dict: metric name -> list of observations.
MetricDicts ==
  UNION {[S -> SeqsOfLen(ObsValues, ObsLengths)] :
           S \in {T \in SUBSET MetricNames : Cardinality(T) \in ReportSizes}}

\* A document handed to the component as a string: well-formed JSON holding
\* a dict, or text json.loads rejects.
Doc(d) == [wellformed |-> TRUE, dict |-> d]
Malformed == [wellformed |-> FALSE, dict |-> <<>>]

ThresholdDocs == {Doc(d) : d \in ThresholdDicts} \cup {Malformed}
MetricDocs == {Doc(d) : d \in MetricDicts} \cup {Malformed}

(* --------------------------- eval_metrics ----------------------------- *)

\* json.loads: the dict of a well-formed document; a malformed one raises.
json_loads_raises(doc) == ~doc.wellformed
json_loads(doc) == doc.dict

\* Variants of the compared-key list: one key dropped, another error-style
\* name added, every name compared.
ComparedOnlyRmse == {RMSE}
ComparedOnlyMae == {MAE}
ComparedErrorStyle == {RMSE, MAE, "mse"}
ComparedEveryMetric == MetricNames

\* The keys regression_threshold_check compares: the list literal of
\* `if k in ['root_mean_squared_error', 'mae']`.
ComparedMetrics == {RMSE, MAE}

\* Variant of Last: the list's first element.
LastAsFirst(obs) == obs[1]

\* metrics_info[k][-1] and metrics_info[k][0] of a non-empty list.
Last(obs) == obs[Len(obs)]
First(obs) == obs[1]

\* Python's `x > v` for a number x: defined when v is a number, TypeError
\* when v is a str.
\* Variants: every value is ordered against a number; `>=` for `>`.
ComparableAlways(v) == TRUE
GreaterOrEqual(x, v) == x >= v.num

Comparable(v) == v.type = "number"
GreaterThan(x, v) == x > v.num

\* Variant of the return: the truth value of the decision as the token.
ReturnedTruthValue(token, log, lookups) ==
  [status |-> "returned",
   deploy |-> IF token = "deploy" THEN "True" ELSE "False",
   error |-> "", key |-> "", log |-> log, lookups |-> lookups]

\* What one call leaves behind: the returned 1-tuple's token or the raised
\* exception, the logging.info lines and the metrics_info keys subscripted.
Returned(token, log, lookups) ==
  [status |-> "returned", deploy |-> token, error |-> "", key |-> "",
   log |-> log, lookups |-> lookups]
Raised(exc, k, log, lookups) ==
  [status |-> "raised", deploy |-> "", error |-> exc, key |-> k,
   log |-> log, lookups |-> lookups]

LogKV(k, v) == [msg |-> "k_v", k |-> k, v |-> v, value |-> 0]
LogReturningFalse(k, v, x) ==
  [msg |-> "returning_False", k |-> k, v |-> v, value |-> x]

\* The for loop of regression_threshold_check from item i on.
RECURSIVE CheckFrom(_, _, _, _, _)
CheckFrom(metrics_info, items, i, log, lookups) ==
  IF i > Len(items) THEN Returned("deploy", log, lookups)
  ELSE
    LET k == items[i].k
        v == items[i].v
        log1 == Append(log, LogKV(k, v))
    IN IF k \notin ComparedMetrics
       THEN CheckFrom(metrics_info, items, i + 1, log1, lookups)
       ELSE
         LET looked == Append(lookups, k)
         IN IF k \notin DOMAIN metrics_info
            THEN Raised("KeyError", k, log1, looked)
            ELSE IF metrics_info[k] = <<>>
            THEN Raised("IndexError", k, log1, looked)
            ELSE IF ~Comparable(v)
            THEN Raised("TypeError", k, log1, looked)
            ELSE IF GreaterThan(Last(metrics_info[k]), v)
            THEN Returned("False",
                   Append(log1, LogReturningFalse(k, v, First(metrics_info[k]))),
                   looked)
            ELSE CheckFrom(metrics_info, items, i + 1, log1, looked)

\* Variant of the loop that does not return at the first violation: it goes
\* on through the remaining items and returns 'False' at the end.
RECURSIVE CheckAllFrom(_, _, _, _, _, _)
CheckAllFrom(metrics_info, items, i, log, lookups, held) ==
  IF i > Len(items)
  THEN Returned(IF held THEN "False" ELSE "deploy", log, lookups)
  ELSE
    LET k == items[i].k
        v == items[i].v
        log1 == Append(log, LogKV(k, v))
    IN IF k \notin ComparedMetrics
       THEN CheckAllFrom(metrics_info, items, i + 1, log1, lookups, held)
       ELSE
         LET looked == Append(lookups, k)
         IN IF k \notin DOMAIN metrics_info
            THEN Raised("KeyError", k, log1, looked)
            ELSE IF metrics_info[k] = <<>>
            THEN Raised("IndexError", k, log1, looked)
            ELSE IF ~Comparable(v)
            THEN Raised("TypeError", k, log1, looked)
            ELSE IF GreaterThan(Last(metrics_info[k]), v)
            THEN CheckAllFrom(metrics_info, items, i + 1,
                   Append(log1, LogReturningFalse(k, v, First(metrics_info[k]))),
                   looked, TRUE)
            ELSE CheckAllFrom(metrics_info, items, i + 1, log1, looked, held)

regression_threshold_check_no_return(metrics_info, thresholds_dict) ==
  CheckAllFrom(metrics_info, thresholds_dict, 1, <<>>, <<>>, FALSE)

regression_threshold_check(metrics_info, thresholds_dict) ==
  CheckFrom(metrics_info, thresholds_dict, 1, <<>>, <<>>)

\* The component function: parse thresholds, parse metrics, run the check.
eval_metrics(metrics_doc, thresholds_doc) ==
  IF json_loads_raises(thresholds_doc)
  THEN Raised("JSONDecodeError", "", <<>>, <<>>)
  ELSE IF json_loads_raises(metrics_doc)
  THEN Raised("JSONDecodeError", "", <<>>, <<>>)
  ELSE regression_threshold_check(json_loads(metrics_doc),
                                  json_loads(thresholds_doc))

(* ------------------------------ state --------------------------------- *)

VARIABLES
  metrics,      \* eval_metrics' metrics argument (a JSON document)
  thresholds,   \* the thresholds argument / pipeline parameter
  pc,           \* "ready" before a lone call, "done" after it; "run" in a
                \* pipeline run
  res,          \* what the lone call left behind
  pipeline,     \* the pipeline function that is run, "" when none is
  branches,     \* the hp indices trained: {0}, or num_best_hps_list's
  tb_viz,       \* step statuses ...
  hptune,
  train,        \* ... and per branch
  eval_metrics_step,
  serve,
  metrics_output_path,  \* train.outputs['metrics_output_path'], per branch
  outputs_deploy,       \* eval_metrics.outputs['deploy'], per branch
  calls,        \* the calls of eval_metrics made so far in one interpreter
  root_level,   \* the level of that interpreter's root logger
  service,      \* the AutoML Tables service: the model and its operations
  component     \* the running instances of automl_deploy_tables_model

evalVars == <<metrics, pc, res>>
pipeVars ==
  <<pipeline, branches, tb_viz, hptune, train, eval_metrics_step, serve,
    metrics_output_path, outputs_deploy>>
vars == <<metrics, thresholds, pc, res, pipeline, branches, tb_viz, hptune,
          train, eval_metrics_step, serve, metrics_output_path,
          outputs_deploy, calls, root_level, service, component>>

NoResult ==
  [status |-> "none", deploy |-> "", error |-> "", key |-> "",
   log |-> <<>>, lookups |-> <<>>]

AllBranches == 0..(MaxBranches - 1)

\* What a call leaves in the interpreter's history: its arguments and what
\* came back.
Call(metrics_doc, thresholds_doc, r) ==
  [metrics |-> metrics_doc, thresholds |-> thresholds_doc,
   status |-> r.status, deploy |-> r.deploy, error |-> r.error, key |-> r.key]

\* A fresh interpreter: nothing called, the root logger at its default level.
FreshInterpreter == calls = <<>> /\ root_level = "WARNING"

\* The instances of the deploy component that may run side by side.
Instances == {1, 2}

NoService ==
  [model |-> "ABSENT", operation |-> [i \in Instances |-> "none"],
   deploy_requests |-> 0]
NotInvoked(name) ==
  [pc |-> "idle", model_display_name |-> name, seen |-> "",
   deploy_called |-> FALSE, exc |-> "", status |-> "", ret |-> <<>>,
   runs |-> 0]

\* The deploy component is not run.
NoDeployment ==
  /\ service = NoService
  /\ component = [i \in Instances |-> NotInvoked("")]

\* No pipeline is run.
NoPipeline ==
  /\ pipeline = ""
  /\ branches = {}
  /\ tb_viz = "absent"
  /\ hptune = "absent"
  /\ train = [b \in AllBranches |-> "absent"]
  /\ eval_metrics_step = [b \in AllBranches |-> "absent"]
  /\ serve = [b \in AllBranches |-> "absent"]
  /\ metrics_output_path = [b \in AllBranches |-> Malformed]
  /\ outputs_deploy = [b \in AllBranches |-> ""]

(* ------------------- specification of one evaluation ------------------ *)

Init ==
  /\ metrics \in MetricDocs
  /\ thresholds \in ThresholdDocs
  /\ pc = "ready"
  /\ res = NoResult
  /\ NoPipeline
  /\ FreshInterpreter
  /\ NoDeployment

\* A call that compares against the thresholds of the call before it.
RunEvalMetricsStaleThresholds ==
  /\ pc = "ready"
  /\ root_level' = "INFO"
  /\ res' = eval_metrics(metrics, IF calls = <<>> THEN thresholds
                                  ELSE calls[Len(calls)].thresholds)
  /\ calls' = Append(calls, Call(metrics, thresholds, res'))
  /\ pc' = "done"
  /\ UNCHANGED <<metrics, thresholds, service, component>>
  /\ UNCHANGED pipeVars

\* One call. It sets the root logger's level before anything else and
\* reads nothing but its two arguments.
RunEvalMetrics ==
  /\ pc = "ready"
  /\ root_level' = "INFO"
  /\ res' = eval_metrics(metrics, thresholds)
  /\ calls' = Append(calls, Call(metrics, thresholds, res'))
  /\ pc' = "done"
  /\ UNCHANGED <<metrics, thresholds, service, component>>
  /\ UNCHANGED pipeVars

Next == RunEvalMetrics

Spec == Init /\ [][Next]_vars

(* ------------------- specification of a pipeline run ------------------ *)

\* Documents a pipeline run passes around: the thresholds parameter and the
\* metrics document the training step writes.
PipelineThresholdDocs ==
  { Doc(<<[k |-> RMSE, v |-> Number(2)]>>),
    Doc(<<[k |-> RMSE, v |-> Number(2)], [k |-> MAE, v |-> Number(2)]>>),
    Doc(<<[k |-> "accuracy", v |-> Number(2)]>>),
    Malformed }
TrainMetricDocs ==
  { Doc((RMSE :> <<3, 1>>) @@ (MAE :> <<1>>)),
    Doc((RMSE :> <<1, 3>>) @@ (MAE :> <<1>>)),
    Doc((RMSE :> <<2>>)),
    Doc((RMSE :> <<>>) @@ (MAE :> <<1>>)),
    Malformed }

Started(status) == status \in {"running", "succeeded", "failed"}
Finished(status) == status \in {"succeeded", "failed"}

\* Variant of the condition: the serve step is not gated.
ConditionAlways(deploy) == TRUE

\* dsl.Condition(eval_metrics.outputs['deploy'] == 'deploy')
Condition(deploy) == deploy = "deploy"

\* Variant of the step wrapper: an exception is swallowed and reported as
\* the 'False' token.
StepOutcomeErrorAsFalse(r) ==
  IF r.status = "returned"
  THEN [status |-> "succeeded", deploy |-> r.deploy]
  ELSE [status |-> "succeeded", deploy |-> "False"]

\* Variant of the step wrapper: the 'False' token ends the step in failure.
StepOutcomeFalseFails(r) ==
  IF r.status = "returned" /\ r.deploy = "deploy"
  THEN [status |-> "succeeded", deploy |-> r.deploy]
  ELSE [status |-> "failed", deploy |-> ""]

\* eval_metrics_op, the container op made of eval_metrics: the step succeeds
\* with the returned tuple's field as its 'deploy' output, and fails with no
\* output when the function raises.
StepOutcome(r) ==
  IF r.status = "returned"
  THEN [status |-> "succeeded", deploy |-> r.deploy]
  ELSE [status |-> "failed", deploy |-> ""]

PipelineStart(name, idxs) ==
  /\ pipeline = name
  /\ branches = idxs
  /\ thresholds \in PipelineThresholdDocs
  /\ metrics = Malformed /\ pc = "run" /\ res = NoResult
  /\ FreshInterpreter
  /\ NoDeployment
  /\ tb_viz = "pending"
  /\ hptune = IF name = "bikes_weather_hptune" THEN "pending" ELSE "absent"
  /\ train = [b \in AllBranches |-> IF b \in idxs THEN "pending" ELSE "absent"]
  /\ eval_metrics_step =
       [b \in AllBranches |-> IF b \in idxs THEN "pending" ELSE "absent"]
  /\ serve = [b \in AllBranches |-> IF b \in idxs THEN "pending" ELSE "absent"]
  /\ metrics_output_path = [b \in AllBranches |-> Malformed]
  /\ outputs_deploy = [b \in AllBranches |-> ""]

\* bikes_weather_metrics trains hp_idx 0; bikes_weather_hptune trains one
\* branch per element of num_best_hps_list.
bikes_weather_metrics == PipelineStart("bikes_weather_metrics", {0})
bikes_weather_hptune ==
  \E n \in 1..MaxBranches : PipelineStart("bikes_weather_hptune", 0..(n - 1))

PipelineInit == bikes_weather_metrics \/ bikes_weather_hptune

\* A step of a pipeline run leaves the run's parameters alone.
InRun ==
  /\ pc = "run"
  /\ UNCHANGED <<metrics, thresholds, pc, res, pipeline, branches>>
  /\ UNCHANGED <<calls, root_level, service, component>>

\* tb_viz = tb_op(...): depends on no other step.
StartTbViz ==
  /\ InRun
  /\ tb_viz = "pending"
  /\ tb_viz' = "running"
  /\ UNCHANGED <<hptune, train, eval_metrics_step, serve,
                 metrics_output_path, outputs_deploy>>
FinishTbViz ==
  /\ InRun
  /\ tb_viz = "running"
  /\ tb_viz' \in {"succeeded", "failed"}
  /\ UNCHANGED <<hptune, train, eval_metrics_step, serve,
                 metrics_output_path, outputs_deploy>>

\* hptune = dsl.ContainerOp(name='ktune', ...): depends on no other step.
StartHptune ==
  /\ InRun
  /\ hptune = "pending"
  /\ hptune' = "running"
  /\ UNCHANGED <<tb_viz, train, eval_metrics_step, serve,
                 metrics_output_path, outputs_deploy>>
FinishHptune ==
  /\ InRun
  /\ hptune = "running"
  /\ hptune' \in {"succeeded", "failed"}
  /\ UNCHANGED <<tb_viz, train, eval_metrics_step, serve,
                 metrics_output_path, outputs_deploy>>

\* Variant of the train step: it takes no output of another step and is
\* free to start at once.
StartTrainAtOnce(b) ==
  /\ InRun
  /\ train[b] = "pending"
  /\ train' = [train EXCEPT ![b] = "running"]
  /\ UNCHANGED <<tb_viz, hptune, eval_metrics_step, serve,
                 metrics_output_path, outputs_deploy>>

\* train = train_op(...): takes tb_viz.outputs['log_dir_uri'] and, in
\* bikes_weather_hptune, hptune.outputs['hps'].
StartTrain(b) ==
  /\ InRun
  /\ train[b] = "pending"
  /\ tb_viz = "succeeded"
  /\ hptune \in {"succeeded", "absent"}
  /\ train' = [train EXCEPT ![b] = "running"]
  /\ UNCHANGED <<tb_viz, hptune, eval_metrics_step, serve,
                 metrics_output_path, outputs_deploy>>
FinishTrain(b) ==
  /\ InRun
  /\ train[b] = "running"
  /\ \/ /\ train' = [train EXCEPT ![b] = "succeeded"]
        /\ \E doc \in TrainMetricDocs :
             metrics_output_path' = [metrics_output_path EXCEPT ![b] = doc]
     \/ /\ train' = [train EXCEPT ![b] = "failed"]
        /\ UNCHANGED metrics_output_path
  /\ UNCHANGED <<tb_viz, hptune, eval_metrics_step, serve, outputs_deploy>>

\* eval_metrics = eval_metrics_op(thresholds=thresholds,
\*                                metrics=train.outputs['metrics_output_path'])
StartEvalMetrics(b) ==
  /\ InRun
  /\ eval_metrics_step[b] = "pending"
  /\ train[b] = "succeeded"
  /\ eval_metrics_step' = [eval_metrics_step EXCEPT ![b] = "running"]
  /\ UNCHANGED <<tb_viz, hptune, train, serve, metrics_output_path,
                 outputs_deploy>>
\* Every branch reading the metrics of the branch that trained last.
FinishEvalMetricsSharedMetrics(b) ==
  /\ InRun
  /\ eval_metrics_step[b] = "running"
  /\ LET last == CHOOSE c \in branches :
                   /\ train[c] = "succeeded"
                   /\ \A d \in branches : train[d] = "succeeded" => d <= c
         out == StepOutcome(eval_metrics(metrics_output_path[last],
                                         thresholds))
     IN /\ eval_metrics_step' = [eval_metrics_step EXCEPT ![b] = out.status]
        /\ outputs_deploy' = [outputs_deploy EXCEPT ![b] = out.deploy]
  /\ UNCHANGED <<tb_viz, hptune, train, serve, metrics_output_path>>
FinishEvalMetrics(b) ==
  /\ InRun
  /\ eval_metrics_step[b] = "running"
  /\ LET out == StepOutcome(eval_metrics(metrics_output_path[b], thresholds))
     IN /\ eval_metrics_step' = [eval_metrics_step EXCEPT ![b] = out.status]
        /\ outputs_deploy' = [outputs_deploy EXCEPT ![b] = out.deploy]
  /\ UNCHANGED <<tb_viz, hptune, train, serve, metrics_output_path>>

\* Variant of the serve step: one branch's 'False' holds every branch back.
StartServeUnlessAnyFalse(b) ==
  /\ InRun
  /\ serve[b] = "pending"
  /\ eval_metrics_step[b] = "succeeded"
  /\ train[b] = "succeeded"
  /\ Condition(outputs_deploy[b])
  /\ \A c \in branches : outputs_deploy[c] # "False"
  /\ serve' = [serve EXCEPT ![b] = "running"]
  /\ UNCHANGED <<tb_viz, hptune, train, eval_metrics_step,
                 metrics_output_path, outputs_deploy>>

\* with dsl.Condition(eval_metrics.outputs['deploy'] == 'deploy'):
\*   serve = serve_op(model_path=train.outputs['train_output_path'], ...)
StartServe(b) ==
  /\ InRun
  /\ serve[b] = "pending"
  /\ eval_metrics_step[b] = "succeeded"
  /\ train[b] = "succeeded"
  /\ Condition(outputs_deploy[b])
  /\ serve' = [serve EXCEPT ![b] = "running"]
  /\ UNCHANGED <<tb_viz, hptune, train, eval_metrics_step,
                 metrics_output_path, outputs_deploy>>
SkipServe(b) ==
  /\ InRun
  /\ serve[b] = "pending"
  /\ eval_metrics_step[b] = "succeeded"
  /\ ~Condition(outputs_deploy[b])
  /\ serve' = [serve EXCEPT ![b] = "skipped"]
  /\ UNCHANGED <<tb_viz, hptune, train, eval_metrics_step,
                 metrics_output_path, outputs_deploy>>
FinishServe(b) ==
  /\ InRun
  /\ serve[b] = "running"
  /\ \E s \in {"succeeded", "failed"} : serve' = [serve EXCEPT ![b] = s]
  /\ UNCHANGED <<tb_viz, hptune, train, eval_metrics_step,
                 metrics_output_path, outputs_deploy>>

PipelineNext ==
  \/ StartTbViz
  \/ FinishTbViz
  \/ StartHptune
  \/ FinishHptune
  \/ \E b \in branches : StartTrain(b)
  \/ \E b \in branches : FinishTrain(b)
  \/ \E b \in branches : StartEvalMetrics(b)
  \/ \E b \in branches : FinishEvalMetrics(b)
  \/ \E b \in branches : StartServe(b)
  \/ \E b \in branches : SkipServe(b)
  \/ \E b \in branches : FinishServe(b)

PipelineSpec == PipelineInit /\ [][PipelineNext]_vars

(* ------------ specification of calls repeated in one interpreter ------ *)

RepeatInit ==
  /\ metrics \in TrainMetricDocs
  /\ thresholds \in PipelineThresholdDocs
  /\ pc = "ready"
  /\ res = NoResult
  /\ NoPipeline
  /\ FreshInterpreter
  /\ NoDeployment

\* The caller comes back with two documents of its choice; the interpreter,
\* its root logger included, is the one the earlier calls ran in.
CallAgain ==
  /\ pc = "done"
  /\ Len(calls) < MaxCalls
  /\ metrics' \in TrainMetricDocs
  /\ thresholds' \in PipelineThresholdDocs
  /\ pc' = "ready"
  /\ UNCHANGED <<res, calls, root_level, service, component>>
  /\ UNCHANGED pipeVars

RepeatNext == RunEvalMetrics \/ CallAgain

RepeatSpec == RepeatInit /\ [][RepeatNext]_vars

(* ------------- specification of automl_deploy_tables_model ------------ *)

ModelDisplayNames == {"bwmodel", "bwmodel_2015"}

\* Exceptions other than NotFound that a call of the client, or the wait
\* on the deploy operation, can end in.
CallErrors == {"ServiceUnavailable"}
OperationError == "GoogleAPICallError"
WaitErrors == {"RetryError"}

\* Variant of the test: the state get_model reported is not looked at.
AlreadyDeployedNever(deployment_state) == FALSE

\* model.deployment_state == enums.Model.DeploymentState.DEPLOYED
AlreadyDeployed(deployment_state) == deployment_state = "DEPLOYED"

\* return (model_display_name, status)
Return(c, status) ==
  [c EXCEPT !.pc = "returned", !.status = status,
            !.ret = <<c.model_display_name, status>>]

\* Variant of the handlers: only NotFound is caught, anything else leaves
\* the function.
ExceptOnlyNotFound(c, exc) ==
  IF exc = "NotFound"
  THEN Return([c EXCEPT !.exc = exc], "not_found")
  ELSE [c EXCEPT !.pc = "raised", !.exc = exc]

\* except exceptions.NotFound ... status = 'not_found'
\* except Exception ... status = 'undeployed'
Except(c, exc) ==
  Return([c EXCEPT !.exc = exc],
         IF exc = "NotFound" THEN "not_found" ELSE "undeployed")

\* What a call of the client can raise, given the model's state.
Raisable == (IF service.model = "ABSENT" THEN {"NotFound"} ELSE {}) \cup CallErrors

DeployInit ==
  /\ service \in [model : {"ABSENT", "UNDEPLOYED", "DEPLOYED"},
                  operation : {[i \in Instances |-> "none"]},
                  deploy_requests : {0}]
  /\ \E name \in ModelDisplayNames :
       component = [i \in Instances |-> NotInvoked(name)]
  /\ metrics = Malformed /\ thresholds = Malformed
  /\ pc = "deploy" /\ res = NoResult
  /\ NoPipeline
  /\ FreshInterpreter

\* A step of the deploy component or of the service leaves the rest alone.
InDeploy ==
  /\ pc = "deploy"
  /\ UNCHANGED <<metrics, thresholds, pc, res, calls, root_level>>
  /\ UNCHANGED pipeVars

\* The component is run, for the first time or again: up to the call of
\* client.get_model.
Invoke(i) ==
  /\ InDeploy
  /\ component[i].pc \in {"idle", "returned"}
  /\ component[i].runs < MaxRuns
  /\ component' = [component EXCEPT ![i] =
       [NotInvoked(component[i].model_display_name) EXCEPT
          !.pc = "get_model", !.runs = component[i].runs + 1]]
  /\ UNCHANGED service

\* client.get_model returns the model: either it is already deployed, and
\* the function returns, or the function goes on to client.deploy_model.
GetModelReturns(i) ==
  /\ InDeploy
  /\ component[i].pc = "get_model"
  /\ service.model # "ABSENT"
  /\ LET c == [component[i] EXCEPT !.seen = service.model]
     IN component' = [component EXCEPT ![i] =
          IF AlreadyDeployed(service.model)
          THEN Return(c, "deployed")
          ELSE [c EXCEPT !.pc = "deploy_model"]]
  /\ UNCHANGED service

GetModelRaises(i) ==
  /\ InDeploy
  /\ component[i].pc = "get_model"
  /\ \E exc \in Raisable :
       component' = [component EXCEPT ![i] = Except(component[i], exc)]
  /\ UNCHANGED service

\* Variant of the call: the request is sent a second time before the
\* operation is handed back.
DeployModelReturnsAfterResend(i) ==
  /\ InDeploy
  /\ component[i].pc = "deploy_model"
  /\ service.model # "ABSENT"
  /\ service' = [service EXCEPT !.operation[i] = "running",
                                !.deploy_requests = @ + 2]
  /\ component' = [component EXCEPT ![i] =
       [component[i] EXCEPT !.pc = "result", !.deploy_called = TRUE]]

\* client.deploy_model returns the long-running operation it started.
DeployModelReturns(i) ==
  /\ InDeploy
  /\ component[i].pc = "deploy_model"
  /\ service.model # "ABSENT"
  /\ service' = [service EXCEPT !.operation[i] = "running",
                                !.deploy_requests = @ + 1]
  /\ component' = [component EXCEPT ![i] =
       [component[i] EXCEPT !.pc = "result", !.deploy_called = TRUE]]

DeployModelRaises(i) ==
  /\ InDeploy
  /\ component[i].pc = "deploy_model"
  /\ \E exc \in Raisable :
       component' = [component EXCEPT ![i] =
         Except([component[i] EXCEPT !.deploy_called = TRUE], exc)]
  /\ UNCHANGED service

\* Variant of the wait: the function does not wait for the operation and
\* goes on as soon as deploy_model has returned it.
ResultReturnsAtOnce(i) ==
  /\ InDeploy
  /\ component[i].pc = "result"
  /\ component' = [component EXCEPT ![i] = Return(component[i], "deployed")]
  /\ UNCHANGED service

\* response.result() returns once the operation is done.
ResultReturns(i) ==
  /\ InDeploy
  /\ component[i].pc = "result"
  /\ service.operation[i] = "done"
  /\ component' = [component EXCEPT ![i] = Return(component[i], "deployed")]
  /\ UNCHANGED service

\* response.result() raises the operation's error, or gives up waiting
\* whatever has become of the operation.
ResultRaises(i) ==
  /\ InDeploy
  /\ component[i].pc = "result"
  /\ \E exc \in (IF service.operation[i] = "failed" THEN {OperationError}
                 ELSE {}) \cup WaitErrors :
       component' = [component EXCEPT ![i] = Except(component[i], exc)]
  /\ UNCHANGED service

\* The service finishes a deploy operation: the model is deployed.
OperationDone(i) ==
  /\ InDeploy
  /\ service.operation[i] = "running"
  /\ service.model # "ABSENT"
  /\ service' = [service EXCEPT !.operation[i] = "done",
                                !.model = "DEPLOYED"]
  /\ UNCHANGED component

OperationFails(i) ==
  /\ InDeploy
  /\ service.operation[i] = "running"
  /\ service' = [service EXCEPT !.operation[i] = "failed"]
  /\ UNCHANGED component

\* Someone deletes the model; the operations on it fail.
DeleteModel ==
  /\ InDeploy
  /\ service.model # "ABSENT"
  /\ service' = [service EXCEPT
       !.model = "ABSENT",
       !.operation = [i \in Instances |->
                        IF service.operation[i] = "running" THEN "failed"
                        ELSE service.operation[i]]]
  /\ UNCHANGED component

DeployNext ==
  \/ \E i \in Instances : Invoke(i)
  \/ \E i \in Instances : GetModelReturns(i)
  \/ \E i \in Instances : GetModelRaises(i)
  \/ \E i \in Instances : DeployModelReturns(i)
  \/ \E i \in Instances : DeployModelRaises(i)
  \/ \E i \in Instances : ResultReturns(i)
  \/ \E i \in Instances : ResultRaises(i)
  \/ \E i \in Instances : OperationDone(i)
  \/ \E i \in Instances : OperationFails(i)
  \/ DeleteModel

DeploySpec == DeployInit /\ [][DeployNext]_vars

(* ===================== properties of one evaluation =================== *)

Done == pc = "done"
WellFormed == metrics.wellformed /\ thresholds.wellformed
M == metrics.dict
T == thresholds.dict

\* The two names the notebook says are compared ("we're comparing only RMSE
\* and MAE with given threshold values").
RmseAndMae == {"root_mean_squared_error", "mae"}

HasFinal(k) == k \in DOMAIN M /\ M[k] # <<>>
FinalOf(k) == M[k][Len(M[k])]
NumericAt(i) == T[i].v.type = "number"

\* The comparison directions the specification text assigns when none is
\* supplied: lower is better for the error-style names, higher otherwise.
ErrorStyleMetrics == {"root_mean_squared_error", "mae", "mse", "loss"}
LowerIsBetter(k) == k \in ErrorStyleMetrics
HigherIsBetter(k) == k \notin ErrorStyleMetrics

\* Entry i violates its threshold under the specification text's directions.
DirectionalViolation(i) ==
  /\ NumericAt(i)
  /\ HasFinal(T[i].k)
  /\ IF LowerIsBetter(T[i].k) THEN FinalOf(T[i].k) > T[i].v.num
                               ELSE FinalOf(T[i].k) < T[i].v.num

\* Entry j is in order under the specification text: its metric is in the
\* report with a final observation, its threshold is a number and is met.
\* Such an entry gives the evaluator nothing to stop at.
InOrder(j) ==
  NumericAt(j) /\ HasFinal(T[j].k) /\ ~DirectionalViolation(j)
FirstTrouble(i) == \A j \in 1..(i - 1) : InOrder(j)

\* Entry i is an RMSE or MAE entry whose final observation is above its
\* numeric threshold.
RmseMaeViolation(i) ==
  /\ T[i].k \in RmseAndMae
  /\ NumericAt(i)
  /\ HasFinal(T[i].k)
  /\ FinalOf(T[i].k) > T[i].v.num

\* Entry j lets the loop go on to entry j + 1.
PassesQuietly(j) ==
  \/ T[j].k \notin RmseAndMae
  \/ /\ NumericAt(j)
     /\ HasFinal(T[j].k)
     /\ FinalOf(T[j].k) <= T[j].v.num
Reached(i) == \A j \in 1..(i - 1) : PassesQuietly(j)

Least(S) == CHOOSE i \in S : \A j \in S : i <= j

HoldAt(r) ==
  /\ r.status = "returned" /\ r.deploy = "False"
  /\ r.log # <<>> /\ r.log[Len(r.log)].msg = "returning_False"
ReportedMetric(r) == r.log[Len(r.log)].k

\* The call stopped right at entry f: the log holds the 'k, v' lines of
\* entries 1..f and then the 'returning False' line of entry f, and only
\* keys of entries 1..f were looked up.
StoppedAt(r, f) ==
  /\ HoldAt(r)
  /\ ReportedMetric(r) = T[f].k
  /\ Len(r.log) = f + 1
  /\ \A j \in 1..f : r.log[j].msg = "k_v" /\ r.log[j].k = T[j].k
  /\ \A n \in DOMAIN r.lookups : r.lookups[n] \in {T[j].k : j \in 1..f}

(* C1 as stated: when evaluation succeeds, the decision is HOLD ('False') *)
(* exactly when some thresholded metric's final observation violates its  *)
(* threshold under its comparison direction, and DEPLOY otherwise.        *)
C1_HoldIffAnyDirectionalViolation ==
  (Done /\ res.status = "returned") =>
    /\ res.deploy = "False" <=> \E i \in DOMAIN T : DirectionalViolation(i)
    /\ res.deploy = "deploy" <=> ~ \E i \in DOMAIN T : DirectionalViolation(i)

(* C1 amended: when evaluation succeeds, the decision is 'False' exactly  *)
(* when the final observation of root_mean_squared_error or mae is        *)
(* strictly above its threshold, and 'deploy' otherwise.                  *)
C1_HoldIffRmseOrMaeAbove ==
  (Done /\ res.status = "returned") =>
    /\ res.deploy = "False" <=> \E i \in DOMAIN T : RmseMaeViolation(i)
    /\ res.deploy = "deploy" <=> ~ \E i \in DOMAIN T : RmseMaeViolation(i)

C1_Witness ==
  /\ Done /\ res.status = "returned" /\ res.deploy = "False"
  /\ Len(T) = 2
  /\ RmseMaeViolation(2) /\ ~RmseMaeViolation(1) /\ T[1].k \in RmseAndMae

(* C3 as stated: when several thresholded metrics violate, evaluation     *)
(* returns HOLD at the first violating metric in declared order, reports  *)
(* only that one and examines no metric after it.                         *)
C3_StopsAtFirstDirectionalViolation ==
  (Done /\ WellFormed
     /\ Cardinality({i \in DOMAIN T : DirectionalViolation(i)}) >= 2
     /\ FirstTrouble(Least({i \in DOMAIN T : DirectionalViolation(i)}))) =>
    StoppedAt(res, Least({i \in DOMAIN T : DirectionalViolation(i)}))

(* C3 amended: when both root_mean_squared_error and mae are above their  *)
(* thresholds, evaluation returns 'False' at the first of the two in the  *)
(* thresholds dict's order, logs only that one as the cause and neither   *)
(* logs nor looks up any entry after it.                                  *)
C3_StopsAtFirstRmseMaeViolation ==
  (Done /\ WellFormed
     /\ Cardinality({i \in DOMAIN T : RmseMaeViolation(i)}) >= 2) =>
    StoppedAt(res, Least({i \in DOMAIN T : RmseMaeViolation(i)}))

C3_Witness ==
  /\ Done /\ WellFormed
  /\ Cardinality({i \in DOMAIN T : RmseMaeViolation(i)}) = 2
  /\ HoldAt(res)
  /\ Len(res.lookups) = 1

(* C4 as stated: a metric named in the thresholds and absent from the     *)
(* report makes evaluation fail with a missing-metric error for that name *)
(* and never yields DEPLOY or HOLD, whatever the name.                    *)
C4_AnyMissingMetricRaises ==
  \A i \in DOMAIN T :
    (Done /\ WellFormed /\ T[i].k \notin DOMAIN M /\ FirstTrouble(i)) =>
      /\ res.status = "raised"
      /\ res.error = "KeyError"
      /\ res.key = T[i].k

(* C4 amended: if root_mean_squared_error or mae is in the thresholds,    *)
(* absent from the report and reached by the loop (every earlier          *)
(* root_mean_squared_error/mae entry was present, non-empty, numerically  *)
(* thresholded and not above its threshold), evaluation fails with        *)
(* KeyError for that name and returns no decision; a KeyError is raised   *)
(* in no other case, and a metric under any other name is never looked    *)
(* up, so thresholds naming only such metrics return a decision.          *)
C4_MissingRmseOrMaeRaisesKeyError ==
  (Done /\ WellFormed) =>
    /\ \A i \in DOMAIN T :
         (T[i].k \in RmseAndMae /\ T[i].k \notin DOMAIN M /\ Reached(i)) =>
           /\ res.status = "raised" /\ res.error = "KeyError"
           /\ res.key = T[i].k /\ res.deploy = ""
    /\ res.error = "KeyError" =>
         \E i \in DOMAIN T :
           /\ T[i].k \in RmseAndMae /\ T[i].k \notin DOMAIN M /\ Reached(i)
           /\ res.key = T[i].k
    /\ (\A i \in DOMAIN T : T[i].k \notin RmseAndMae) =>
         res.status = "returned" /\ res.lookups = <<>>

C4_Witness ==
  /\ Done /\ WellFormed
  /\ res.status = "raised" /\ res.error = "KeyError" /\ res.key = "mae"
  /\ Len(T) = 2 /\ T[2].k = "mae" /\ T[1].k \notin DOMAIN M

C6_HigherIsBetterBelowGivesHold ==
  (Done /\ res.status = "returned") =>
    /\ (\E i \in DOMAIN T :
          /\ HigherIsBetter(T[i].k) /\ NumericAt(i) /\ HasFinal(T[i].k)
          /\ FinalOf(T[i].k) < T[i].v.num) => res.deploy = "False"
    /\ (~ \E i \in DOMAIN T : DirectionalViolation(i)) =>
          res.deploy = "deploy"

(* C6 amended: no higher-is-better comparison is made.  A thresholded     *)
(* metric other than root_mean_squared_error and mae (accuracy, say) is   *)
(* never the cause of HOLD: when evaluation returns and neither           *)
(* root_mean_squared_error nor mae is above its threshold the decision is *)
(* 'deploy', whether that metric's final observation is below, at or      *)
(* above its threshold, and a HOLD is always logged against               *)
(* root_mean_squared_error or mae.                                        *)
C6_OtherMetricsNeverGiveHold ==
  (Done /\ res.status = "returned") =>
    /\ (\E i \in DOMAIN T : T[i].k \notin RmseAndMae)
         /\ (~ \E i \in DOMAIN T : RmseMaeViolation(i))
         => res.deploy = "deploy"
    /\ res.deploy = "False" =>
         HoldAt(res) /\ ReportedMetric(res) \in RmseAndMae

\* accuracy's final observation 1 against threshold 2: 'deploy'.
C6_Witness ==
  /\ Done /\ res.status = "returned" /\ res.deploy = "deploy"
  /\ \E i \in DOMAIN T :
       /\ T[i].k = "accuracy" /\ NumericAt(i) /\ HasFinal("accuracy")
       /\ FinalOf("accuracy") < T[i].v.num

(* C7 as stated: with no direction given, root_mean_squared_error, mae,   *)
(* mse and loss are lower-is-better (a final value above the threshold    *)
(* gives HOLD for each of the four) and every other name is               *)
(* higher-is-better (a final value below the threshold gives HOLD).       *)
C7_DefaultDirections ==
  (Done /\ res.status = "returned") =>
    \A i \in DOMAIN T :
      (NumericAt(i) /\ HasFinal(T[i].k)) =>
        /\ (T[i].k \in ErrorStyleMetrics /\ FinalOf(T[i].k) > T[i].v.num)
             => res.deploy = "False"
        /\ (T[i].k \notin ErrorStyleMetrics /\ FinalOf(T[i].k) < T[i].v.num)
             => res.deploy = "False"

(* C7 amended: only root_mean_squared_error and mae are evaluated, both   *)
(* as lower-is-better (a final value above the threshold gives HOLD for   *)
(* each of the two); mse, loss and every other name are not evaluated:    *)
(* they are never looked up in the metrics and never give HOLD.           *)
C7_OnlyRmseAndMaeAreLowerIsBetter ==
  Done =>
    /\ res.status = "returned" =>
         \A i \in DOMAIN T :
           (T[i].k \in RmseAndMae /\ NumericAt(i) /\ HasFinal(T[i].k)
              /\ FinalOf(T[i].k) > T[i].v.num) => res.deploy = "False"
    /\ \A n \in DOMAIN res.lookups : res.lookups[n] \in RmseAndMae
    /\ \A n \in DOMAIN res.log :
         res.log[n].msg = "returning_False" => res.log[n].k \in RmseAndMae
    /\ (WellFormed /\ \A i \in DOMAIN T : T[i].k \notin RmseAndMae) =>
         res.status = "returned" /\ res.deploy = "deploy"

\* mse above its threshold and accuracy below its own: 'deploy'.
C7_Witness ==
  /\ Done /\ res.status = "returned" /\ res.deploy = "deploy"
  /\ Len(T) = 2 /\ Keys(T) = {"mse", "accuracy"}
  /\ \A i \in DOMAIN T : NumericAt(i) /\ HasFinal(T[i].k)
  /\ \E i \in DOMAIN T : T[i].k = "mse" /\ FinalOf("mse") > T[i].v.num
  /\ \E i \in DOMAIN T :
       T[i].k = "accuracy" /\ FinalOf("accuracy") < T[i].v.num

(* C8 as stated: a thresholded metric present in the report with an empty *)
(* observation list makes evaluation fail with an empty-observations      *)
(* error for that metric; neither DEPLOY nor HOLD is returned.            *)
C8_AnyEmptyObservationsRaises ==
  \A i \in DOMAIN T :
    (/\ Done /\ WellFormed
     /\ T[i].k \in DOMAIN M /\ M[T[i].k] = <<>> /\ NumericAt(i)
     /\ FirstTrouble(i)) =>
      /\ res.status = "raised"
      /\ res.error = "IndexError"
      /\ res.key = T[i].k

(* C8 amended: if root_mean_squared_error or mae is in the thresholds,    *)
(* present in the report with an empty list and reached by the loop,      *)
(* evaluation fails with IndexError for that metric and returns no        *)
(* decision; an IndexError is raised in no other case, and an empty list  *)
(* under any other name is never read, so thresholds naming only such     *)
(* metrics return 'deploy'.                                               *)
C8_EmptyRmseOrMaeRaisesIndexError ==
  (Done /\ WellFormed) =>
    /\ \A i \in DOMAIN T :
         (/\ T[i].k \in RmseAndMae /\ T[i].k \in DOMAIN M
          /\ M[T[i].k] = <<>> /\ Reached(i)) =>
           /\ res.status = "raised" /\ res.error = "IndexError"
           /\ res.key = T[i].k /\ res.deploy = ""
    /\ res.error = "IndexError" =>
         \E i \in DOMAIN T :
           /\ T[i].k \in RmseAndMae /\ T[i].k \in DOMAIN M
           /\ M[T[i].k] = <<>> /\ Reached(i) /\ res.key = T[i].k
    /\ (\A i \in DOMAIN T : T[i].k \notin RmseAndMae) =>
         res.status = "returned" /\ res.deploy = "deploy"

C8_Witness ==
  /\ Done /\ WellFormed
  /\ res.status = "raised" /\ res.error = "IndexError" /\ res.key = "mae"
  /\ Len(T) = 2 /\ T[2].k = "mae"
  /\ T[1].k \in DOMAIN M /\ M[T[1].k] = <<>>

(* C9 as stated: a non-numeric threshold anywhere in the thresholds makes *)
(* evaluation fail with an invalid-spec error and produce no decision,    *)
(* whether or not its metric is one the evaluator compares.               *)
C9_AnyNonNumericThresholdRaises ==
  (Done /\ WellFormed /\ \E i \in DOMAIN T : ~NumericAt(i)) =>
    /\ res.status = "raised"
    /\ res.deploy = ""
    /\ (\A j \in DOMAIN T : HasFinal(T[j].k)) => res.error = "TypeError"

(* C9 amended: a non-numeric threshold makes evaluation fail (TypeError,  *)
(* no decision) only when it belongs to root_mean_squared_error or mae,   *)
(* that metric is present and non-empty in the report and the loop        *)
(* reaches the entry; a non-numeric threshold under any other name is     *)
(* never validated, and thresholds naming only such metrics return        *)
(* 'deploy'.                                                              *)
C9_NonNumericRmseOrMaeThresholdRaisesTypeError ==
  (Done /\ WellFormed) =>
    /\ \A i \in DOMAIN T :
         (/\ T[i].k \in RmseAndMae /\ ~NumericAt(i)
          /\ HasFinal(T[i].k) /\ Reached(i)) =>
           /\ res.status = "raised" /\ res.error = "TypeError"
           /\ res.key = T[i].k /\ res.deploy = ""
    /\ res.error = "TypeError" =>
         \E i \in DOMAIN T :
           /\ T[i].k \in RmseAndMae /\ ~NumericAt(i)
           /\ HasFinal(T[i].k) /\ Reached(i) /\ res.key = T[i].k
    /\ (\A i \in DOMAIN T : T[i].k \notin RmseAndMae) =>
         res.status = "returned" /\ res.deploy = "deploy"

C9_Witness ==
  /\ Done /\ WellFormed
  /\ res.status = "raised" /\ res.error = "TypeError"
  /\ Len(T) = 2 /\ ~NumericAt(1) /\ T[1].k \notin RmseAndMae
  /\ ~NumericAt(2)

(* C11: on a HOLD decision the value reported for the violated metric is *)
(* that metric's final observation, the value that was compared against   *)
(* the threshold, together with the metric's name and its threshold.      *)
C11_ReportedValueIsFinalObservation ==
  (Done /\ HoldAt(res)) =>
    LET line == res.log[Len(res.log)]
    IN \E i \in DOMAIN T :
         /\ RmseMaeViolation(i)
         /\ line.k = T[i].k
         /\ line.v = T[i].v
         /\ line.value = FinalOf(T[i].k)

\* [1, 3] against 2: HOLD on the final 3, while the line logged reads
\* '1 > 2; returning False'.
C11_Witness ==
  /\ Done /\ HoldAt(res)
  /\ M[ReportedMetric(res)] = <<1, 3>>
  /\ res.log[Len(res.log)].value = 1

(* C15: every successful evaluation emits exactly one decision token,   *)
(* and that token is always either 'deploy' or 'False'; an evaluation     *)
(* that raises emits none.                                                *)
C15_OneTokenDeployOrFalse ==
  Done =>
    /\ res.status \in {"returned", "raised"}
    /\ res.status = "returned" => res.deploy \in {"deploy", "False"}
    /\ res.status = "raised" => res.deploy = ""

\* Both thresholds were compared and the one token is 'deploy'.
C15_Witness ==
  /\ Done /\ res.status = "returned" /\ res.deploy = "deploy"
  /\ Len(T) = 2 /\ \A i \in DOMAIN T : T[i].k \in RmseAndMae
  /\ Len(res.lookups) = 2

\* The input is malformed: a document is no JSON, or an RMSE or MAE
\* threshold is no number, or its metric is missing from the report or has
\* no observation.
MalformedInput ==
  \/ ~WellFormed
  \/ \E i \in DOMAIN T :
       /\ T[i].k \in RmseAndMae
       /\ \/ ~NumericAt(i)
          \/ T[i].k \notin DOMAIN M
          \/ M[T[i].k] = <<>>

(* C16: the evaluation step ends with a success status whenever it        *)
(* reaches a decision, for both decision outcomes, and with a failure     *)
(* status only when its input is malformed (missing thresholded metric,   *)
(* invalid spec, empty observation sequence).                             *)
C16_SuccessOnDecisionFailureOnlyOnMalformedInput ==
  Done =>
    LET out == StepOutcome(res)
    IN /\ out.status \in {"succeeded", "failed"}
       /\ res.deploy \in {"deploy", "False"} =>
            (out.status = "succeeded" /\ out.deploy = res.deploy)
       /\ out.status = "failed" => MalformedInput

\* A HOLD decision on well-formed input: the step succeeds with 'False'.
C16_Witness ==
  /\ Done /\ WellFormed /\ ~MalformedInput
  /\ res.deploy = "False"
  /\ StepOutcome(res) = [status |-> "succeeded", deploy |-> "False"]

IsComparedEntry(entry) == entry.k \in RmseAndMae
OnlyComparedEntries == SelectSeq(T, IsComparedEntry)

(* C18: eval_metrics compares only the threshold keys                     *)
(* 'root_mean_squared_error' and 'mae'; a threshold under any other key   *)
(* is never looked up in the metrics and never changes the decision, so   *)
(* thresholds that are empty or hold only other keys always yield         *)
(* 'deploy', whatever the metrics contain.                                *)
C18_OnlyRmseAndMaeAreCompared ==
  (Done /\ WellFormed) =>
    /\ \A n \in DOMAIN res.lookups : res.lookups[n] \in RmseAndMae
    /\ LET r == regression_threshold_check(M, OnlyComparedEntries)
       IN /\ res.status = r.status /\ res.deploy = r.deploy
          /\ res.error = r.error /\ res.key = r.key
          /\ res.lookups = r.lookups
    /\ OnlyComparedEntries = <<>> =>
         (res.status = "returned" /\ res.deploy = "deploy"
          /\ res.lookups = <<>>)

\* Two thresholds under other keys, one whose metric is missing from the
\* report and one whose metric ends above the threshold: 'deploy'.
C18_Witness ==
  /\ Done /\ WellFormed /\ OnlyComparedEntries = <<>>
  /\ \E i, j \in DOMAIN T :
       /\ T[i].k \notin DOMAIN M
       /\ NumericAt(j) /\ HasFinal(T[j].k) /\ FinalOf(T[j].k) > T[j].v.num
  /\ res.deploy = "deploy"

(* ================= properties of repeated evaluations ================= *)

SameDocuments(c, d) ==
  c.metrics = d.metrics /\ c.thresholds = d.thresholds
SameOutcome(c, d) ==
  /\ c.status = d.status /\ c.deploy = d.deploy
  /\ c.error = d.error /\ c.key = d.key

C2_ServeOnlyOnDeployToken ==
  \A b \in AllBranches :
    /\ Started(serve[b]) =>
         /\ b \in branches
         /\ eval_metrics_step[b] = "succeeded"
         /\ outputs_deploy[b] = "deploy"
    /\ outputs_deploy[b] = "False" => ~Started(serve[b])

\* One branch serves on 'deploy' while the other, on 'False', is skipped.
C2_Witness ==
  /\ pipeline = "bikes_weather_hptune"
  /\ \E b, c \in branches :
       /\ serve[b] = "succeeded" /\ outputs_deploy[b] = "deploy"
       /\ serve[c] = "skipped" /\ outputs_deploy[c] = "False"

(* C10: if the eval_metrics step fails with an error (missing metric,     *)
(* empty observations, malformed input) instead of producing a decision,  *)
(* the serve step of that branch never runs, and the run state differs    *)
(* from the one reached on the HOLD token 'False': a failed step with no  *)
(* 'deploy' output, against a succeeded step whose output is 'False'.     *)
C10_ErrorNeverServesAndDiffersFromHold ==
  \A b \in branches :
    Finished(eval_metrics_step[b]) =>
      LET r == eval_metrics(metrics_output_path[b], thresholds)
      IN /\ r.status = "raised" =>
              /\ eval_metrics_step[b] = "failed"
              /\ outputs_deploy[b] = ""
              /\ serve[b] = "pending"
         /\ (r.status = "returned" /\ r.deploy = "False") =>
              /\ eval_metrics_step[b] = "succeeded"
              /\ outputs_deploy[b] = "False"
              /\ serve[b] \in {"pending", "skipped"}

\* One branch's evaluation failed on a missing metric and its serve step is
\* still pending; the other's returned 'False' and its serve step is skipped.
C10_Witness ==
  /\ pipeline = "bikes_weather_hptune"
  /\ \E b, c \in branches :
       /\ eval_metrics_step[b] = "failed" /\ serve[b] = "pending"
       /\ eval_metrics(metrics_output_path[b], thresholds).error = "KeyError"
       /\ eval_metrics_step[c] = "succeeded" /\ outputs_deploy[c] = "False"
       /\ serve[c] = "skipped"

\* Branch b's metrics as the train step wrote them, and the final value of
\* metric k in them.
BranchMetrics(b) == metrics_output_path[b].dict
BranchFinal(b, k) == BranchMetrics(b)[k][Len(BranchMetrics(b)[k])]
BranchHasFinal(b, k) ==
  /\ metrics_output_path[b].wellformed
  /\ k \in DOMAIN BranchMetrics(b) /\ BranchMetrics(b)[k] # <<>>

\* The thresholds the op compares: the RMSE and MAE entries.
ComparedEntries == {i \in DOMAIN T : T[i].k \in RmseAndMae}

(* C12: as the notebook states it, the metrics op does not deploy when a  *)
(* threshold value is higher than the associated metric's final value,    *)
(* and the pipeline sets up TF-serving when the trained model's final     *)
(* metrics are above the given thresholds.                                *)
C12_NoDeployWhenThresholdHigherServeWhenAbove ==
  \A b \in branches :
    eval_metrics_step[b] = "succeeded" =>
      /\ (\E i \in ComparedEntries :
            /\ BranchHasFinal(b, T[i].k)
            /\ T[i].v.num > BranchFinal(b, T[i].k))
           => (outputs_deploy[b] = "False" /\ ~Started(serve[b]))
      /\ (/\ ComparedEntries # {}
          /\ \A i \in ComparedEntries :
               /\ BranchHasFinal(b, T[i].k)
               /\ BranchFinal(b, T[i].k) > T[i].v.num)
           => (outputs_deploy[b] = "deploy" /\ serve[b] # "skipped")

\* Both ways at once: threshold 2 is higher than one branch's final RMSE 1
\* and that branch is served; the other branch's final RMSE 3 is above the
\* threshold and its serve step is skipped.
C12_Witness ==
  /\ pipeline = "bikes_weather_hptune"
  /\ \E i \in ComparedEntries : T[i].k = RMSE /\ T[i].v.num = 2
  /\ \E b, c \in branches :
       /\ BranchHasFinal(b, RMSE) /\ BranchFinal(b, RMSE) = 1
       /\ serve[b] = "succeeded"
       /\ BranchHasFinal(c, RMSE) /\ BranchFinal(c, RMSE) = 3
       /\ serve[c] = "skipped"

\* What a call on branch b's own metrics and the run's thresholds comes
\* to, read off the documents: entry i of the thresholds stops the call
\* when it is an RMSE or MAE entry whose metric has no final value in the
\* branch's metrics, or whose threshold is no number, or whose final value
\* is above the threshold; the first such entry settles the outcome.
BranchStopsAt(b, i) ==
  /\ i \in ComparedEntries
  /\ \/ ~BranchHasFinal(b, T[i].k)
     \/ ~NumericAt(i)
     \/ BranchFinal(b, T[i].k) > T[i].v.num
BranchStops(b) == {i \in DOMAIN T : BranchStopsAt(b, i)}
SolitaryDecision(b) ==
  IF ~thresholds.wellformed \/ ~metrics_output_path[b].wellformed THEN ""
  ELSE IF BranchStops(b) = {} THEN "deploy"
  ELSE LET i == Least(BranchStops(b))
       IN IF BranchHasFinal(b, T[i].k) /\ NumericAt(i) THEN "False" ELSE ""

(* C14: when eval_metrics runs in the parallel branches of the hptune     *)
(* pipeline, under every interleaving of the branches' steps each         *)
(* branch's decision is the one a solitary evaluation of that branch's    *)
(* own metrics and the shared thresholds gives; it depends on no other    *)
(* branch's metrics, progress or decision.                                *)
C14_BranchDecisionIsSolitaryDecision ==
  pipeline = "bikes_weather_hptune" =>
    \A b \in branches :
      Finished(eval_metrics_step[b]) =>
        /\ outputs_deploy[b] = SolitaryDecision(b)
        /\ eval_metrics_step[b] = "succeeded" <=> SolitaryDecision(b) # ""

\* Two branches, trained to different metrics, have both been evaluated,
\* one to 'deploy' and one to 'False'.
C14_Witness ==
  /\ pipeline = "bikes_weather_hptune"
  /\ \E b, c \in branches :
       /\ b < c
       /\ metrics_output_path[b] # metrics_output_path[c]
       /\ eval_metrics_step[b] = "succeeded" /\ outputs_deploy[b] = "deploy"
       /\ eval_metrics_step[c] = "succeeded" /\ outputs_deploy[c] = "False"
       /\ serve[c] = "skipped" /\ serve[b] = "pending"

(* C17: in bikes_weather_metrics the TensorBoard visualization is set   *)
(* up first, then training runs, then eval_metrics, then (conditionally)  *)
(* serving; none of these steps starts before its predecessor in that     *)
(* order has finished.                                                    *)
C17_MetricsPipelineStepOrder ==
  pipeline = "bikes_weather_metrics" =>
    /\ branches = {0} /\ hptune = "absent"
    /\ Started(train[0]) => tb_viz = "succeeded"
    /\ Started(eval_metrics_step[0]) => train[0] = "succeeded"
    /\ (Started(serve[0]) \/ serve[0] = "skipped") =>
         eval_metrics_step[0] = "succeeded"
    /\ ~Finished(tb_viz) =>
         /\ train[0] = "pending" /\ eval_metrics_step[0] = "pending"
         /\ serve[0] = "pending"

\* The whole chain has run, serving included.
C17_Witness ==
  /\ pipeline = "bikes_weather_metrics"
  /\ tb_viz = "succeeded" /\ train[0] = "succeeded"
  /\ eval_metrics_step[0] = "succeeded" /\ serve[0] = "succeeded"

(* ================== properties of the deploy component ================ *)

(* C19: automl_deploy_tables_model returns status 'deployed' without      *)
(* calling deploy_model when get_model reports the model already in state *)
(* DEPLOYED; deploy_model is called only when get_model succeeded and     *)
(* reported a state other than DEPLOYED, so that re-running the component *)
(* on a deployed model issues no further deploy request.                  *)
C19_DeployOnlyWhenNotAlreadyDeployed ==
  \A i \in Instances :
    LET c == component[i]
    IN /\ c.seen = "DEPLOYED" =>
            /\ ~c.deploy_called
            /\ c.pc = "returned" /\ c.status = "deployed"
       /\ c.deploy_called => c.seen = "UNDEPLOYED"
       /\ c.pc \in {"deploy_model", "result"} => c.seen = "UNDEPLOYED"

\* An instance deployed the model in its first run; run again, it found
\* the model DEPLOYED and returned 'deployed' with still one deploy request
\* made in all.
C19_Witness ==
  \E i \in Instances :
    /\ component[i].runs = 2
    /\ component[i].seen = "DEPLOYED" /\ component[i].status = "deployed"
    /\ ~component[i].deploy_called
    /\ service.operation[i] = "done" /\ service.deploy_requests = 1

(* C20: for every outcome of get_model and deploy_model the component     *)
(* returns normally the pair (model_display_name, status), the first      *)
(* element being its input unchanged and status one of 'deployed',        *)
(* 'not_found', 'undeployed': a NotFound error gives 'not_found', every   *)
(* other exception from get_model, deploy_model or the wait on the        *)
(* operation gives 'undeployed', and no such exception propagates.        *)
C20_AlwaysReturnsNameAndStatus ==
  \A i \in Instances :
    LET c == component[i]
    IN /\ c.pc # "raised"
       /\ c.model_display_name \in ModelDisplayNames
       /\ \A j \in Instances :
            component[j].model_display_name = c.model_display_name
       /\ c.exc # "" => c.pc = "returned"
       /\ c.pc = "returned" =>
            /\ c.ret = <<c.model_display_name, c.status>>
            /\ c.status \in {"deployed", "not_found", "undeployed"}
            /\ c.status = "not_found" <=> c.exc = "NotFound"
            /\ c.status = "undeployed" <=> c.exc \in CallErrors \cup WaitErrors
                                                   \cup {OperationError}
            /\ c.status = "deployed" <=> c.exc = ""

\* One instance returned 'undeployed' after its wait on the operation gave
\* up, the other 'not_found' after deploy_model found the model deleted.
C20_Witness ==
  \E i, j \in Instances :
    /\ component[i].pc = "returned" /\ component[i].deploy_called
    /\ component[i].exc \in WaitErrors
    /\ component[i].ret = <<component[i].model_display_name, "undeployed">>
    /\ component[j].pc = "returned" /\ component[j].deploy_called
    /\ component[j].exc = "NotFound"
    /\ component[j].ret = <<component[j].model_display_name, "not_found">>

(* C21: when the model exists and is not deployed, the component reports *)
(* status 'deployed' only after the deploy operation's synchronous        *)
(* result() has returned successfully; it never reports 'deployed' while  *)
(* its deploy operation is still pending or after it has failed.          *)
C21_DeployedOnlyAfterOperationDone ==
  \A i \in Instances :
    LET c == component[i]
    IN (c.status = "deployed" /\ c.seen = "UNDEPLOYED") =>
         /\ c.pc = "returned" /\ c.deploy_called /\ c.exc = ""
         /\ service.operation[i] = "done"
         /\ service.operation[i] \notin {"running", "failed"}

\* One instance waited for its operation and reports 'deployed'; the other
\* instance's wait on its own, failed, operation ended in 'undeployed'.
C21_Witness ==
  \E i, j \in Instances :
    /\ component[i].status = "deployed" /\ component[i].seen = "UNDEPLOYED"
    /\ service.operation[i] = "done"
    /\ service.operation[j] = "failed" /\ component[j].deploy_called
    /\ component[j].status = "undeployed"
    /\ component[j].exc = OperationError

\* Instance i returns in this step.
ReturnsNow(i) ==
  component[i].pc # "returned" /\ component'[i].pc = "returned"

(* C22: whenever the component returns status 'undeployed', the model is  *)
(* not in the DEPLOYED state in the service at the time of return,        *)
(* including when get_model failed with an error other than NotFound and  *)
(* when the wait on the deploy operation raised.                          *)
C22_UndeployedMeansNotDeployedAtReturn ==
  [][\A i \in Instances :
       (ReturnsNow(i) /\ component'[i].status = "undeployed") =>
         service'.model # "DEPLOYED"]_vars

\* get_model failed on a model that is DEPLOYED, no run having asked for a
\* deployment: the run returned 'undeployed'.
C22_Witness ==
  \E i \in Instances :
    /\ component[i].pc = "returned" /\ component[i].status = "undeployed"
    /\ component[i].seen = "" /\ component[i].exc \in CallErrors
    /\ service.model = "DEPLOYED" /\ service.deploy_requests = 0

RECURSIVE RunsOf(_)
RunsOf(S) ==
  IF S = {} THEN 0
  ELSE LET i == CHOOSE j \in S : TRUE
       IN component[i].runs + RunsOf(S \ {i})

(* C23: when two instances of the component run concurrently for the same *)
(* undeployed model, at most one deploy_model request is issued for that  *)
(* model across both instances: the get_model state check and the         *)
(* deploy_model call act as one atomic step.                              *)
C23_AtMostOneRequestAcrossInstances ==
  (\A i \in Instances :
     component[i].runs = 1 /\ component[i].seen = "UNDEPLOYED")
    => service.deploy_requests <= 1

(* C23, as the code has it: every run issues at most one deploy_model     *)
(* request, and only after its own get_model reported the model           *)
(* UNDEPLOYED; instances that run concurrently can each issue one.        *)
C23_AtMostOneRequestPerRun ==
  /\ service.deploy_requests <= RunsOf(Instances)
  /\ \A i \in Instances :
       /\ service.operation[i] # "none" => component[i].runs >= 1
       /\ component[i].pc = "result" =>
            (component[i].seen = "UNDEPLOYED" /\ component[i].deploy_called)
  /\ (\A i \in Instances : component[i].runs <= 1) =>
       service.deploy_requests
         <= Cardinality({i \in Instances : service.operation[i] # "none"})

\* Both instances, each in its first run, saw the model UNDEPLOYED and
\* both deploy operations are running.
C23_Witness ==
  /\ \A i \in Instances :
       /\ component[i].runs = 1 /\ component[i].seen = "UNDEPLOYED"
       /\ service.operation[i] = "running"
  /\ service.deploy_requests = 2

(* C24: in bikes_weather_hptune no training step starts before the      *)
(* hptune step and the TensorBoard step have both completed, and for each *)
(* index of num_best_hps_list the branch runs train, then eval_metrics,   *)
(* then serve gated on that branch's own decision; a branch whose         *)
(* decision is 'False' does not prevent other branches from serving.      *)
C24_HptunePipelineStepOrder ==
  pipeline = "bikes_weather_hptune" =>
    \A b \in branches :
      /\ Started(train[b]) => (hptune = "succeeded" /\ tb_viz = "succeeded")
      /\ Started(eval_metrics_step[b]) => train[b] = "succeeded"
      /\ Started(serve[b]) =>
           (eval_metrics_step[b] = "succeeded" /\ outputs_deploy[b] = "deploy")
      /\ serve[b] = "skipped" =>
           (eval_metrics_step[b] = "succeeded" /\ outputs_deploy[b] = "False")
      /\ (/\ serve[b] = "pending"
          /\ eval_metrics_step[b] = "succeeded"
          /\ outputs_deploy[b] = "deploy") => ENABLED StartServe(b)

\* The lower branch's decision was 'False' and its serve step was skipped
\* before the other branch, whose decision is 'deploy', started to serve.
C24_Witness ==
  /\ pipeline = "bikes_weather_hptune"
  /\ hptune = "succeeded" /\ tb_viz = "succeeded"
  /\ \E b, c \in branches :
       /\ b < c
       /\ outputs_deploy[b] = "False" /\ serve[b] = "skipped"
       /\ outputs_deploy[c] = "deploy" /\ serve[c] = "running"

====
